---- MODULE Spec2Model ----
(***************************************************************************)
(* Model of the client middleware of vscode-bitbake:                       *)
(*   - middlewareProvideDefinition / processDefinitions /                  *)
(*     ajustDefinitionRange / redirectDefinition                           *)
(*   - middlewareProvideCompletion                                         *)
(* One request is followed from the call of the middleware to its return.  *)
(* Every `await` of the source is a step boundary; the code between two    *)
(* awaits is one atomic action.                                            *)
(***************************************************************************)
EXTENDS Integers, Sequences, FiniteSets, TLC

\* Bounds of the model
MaxDefs == 2
MaxItems == 2

----------------------------------------------------------------------------
\* Values

NoRange == <<>>                       \* `undefined` where a Range is expected

dRange == <<2, 0, 2, 1>>              \* new Range(2, 0, 2, 1)
dataSmartPosition == <<2, 19>>        \* new Position(2, 19)
eRange == <<3, 0, 3, 1>>              \* new Range(3, 0, 3, 1)
eventPosition == <<3, 14>>            \* new Position(3, 14)

hostPosition == <<15, 6>>             \* the position of the request in the host document
requestPosition == <<5, 6>>           \* the adjusted position of the request
NoPosition == <<>>                    \* `undefined` where a Position is expected
otherRange == <<5, 4, 5, 9>>          \* some other range of the virtual document
spanningRange == <<2, 0, 5, 9>>       \* a range over several virtual lines

VirtualLines == {2, 3, 5}
HostLines == {12, 13, 15}

HostUri == "file:///recipe.bb"
VirtualUri == "file:///embedded/recipe.py"
LibUri == "file:///lib/bb/data_smart.py"

Undefined == [t |-> "undefined", items |-> <<>>]
Null == [t |-> "null", items |-> <<>>]
Pending == [t |-> "pending", items |-> <<>>]
Rejected == [t |-> "rejected", items |-> <<>>]
ArrayOf(items) == [t |-> "array", items |-> items]

SeqsUpTo(S, n) == UNION {[1..k -> S] : k \in 0..n}

----------------------------------------------------------------------------
\* Position/Range translation (the helpers of ./utils)

\* characterIndexes, abstracted per virtual line: the host line of a virtual
\* line, or -1 where the virtual text has no counterpart in the host document
CharacterIndexesTables ==
  {ci \in [VirtualLines -> HostLines \cup {-1}] :
     \A l \in VirtualLines : ci[l] \in {-1, l + 10}}

\* toHost: both endpoints must map, or the whole range mapping fails
getOriginalDocRange(characterIndexes, range) ==
  IF characterIndexes[range[1]] = -1 \/ characterIndexes[range[3]] = -1
  THEN NoRange
  ELSE <<characterIndexes[range[1]], range[2], characterIndexes[range[3]], range[4]>>

\* toEmbedded: the position of the virtual document that corresponds to a
\* position of the host document, undefined outside of every mapped span
getEmbeddedLanguageDocPosition(characterIndexes, position) ==
  IF \E l \in VirtualLines : characterIndexes[l] = position[1]
  THEN <<CHOOSE l \in VirtualLines : characterIndexes[l] = position[1], position[2]>>
  ELSE NoPosition

IsVirtualSpaceRange(range) == range # NoRange /\ range[1] \in VirtualLines

----------------------------------------------------------------------------
\* Definitions (Location | LocationLink)

Location(uri, range) ==
  [shape |-> "Location", uri |-> uri, range |-> range, sel |-> NoRange]
LocationLink(uri, range, sel) ==
  [shape |-> "LocationLink", uri |-> uri, range |-> range, sel |-> sel]

\* ./utils helpers over both shapes (uri/targetUri, range/targetRange)
getDefinitionUri(definition) == definition.uri
checkIsDefinitionUriEqual(definition, uri) == getDefinitionUri(definition) = uri
checkIsDefinitionRangeEqual(definition, range) == definition.range = range
changeDefinitionUri(definition, uri) == [definition EXCEPT !.uri = uri]
convertToSameDefinitionType(reference, definition) ==
  IF reference.shape = definition.shape THEN definition
  ELSE IF reference.shape = "Location"
       THEN Location(definition.uri, definition.range)
       ELSE LocationLink(definition.uri, definition.range, NoRange)

KeepRedirectedResult(initialDefinition, redirectedResult) == redirectedResult

\* redirectedResult.map((redirectedDefinition) => convertToSameDefinitionType(...))
ConvertAll(initialDefinition, redirectedResult) ==
  [k \in DOMAIN redirectedResult |->
     convertToSameDefinitionType(initialDefinition, redirectedResult[k])]

AjustWithoutTranslation(definition, characterIndexes) == definition

\* ajustDefinitionRange: a failed translation leaves the range as it is
ajustDefinitionRange(definition, characterIndexes) ==
  IF definition.shape = "Location"
  THEN LET newRange == getOriginalDocRange(characterIndexes, definition.range)
       IN IF newRange # NoRange THEN [definition EXCEPT !.range = newRange]
          ELSE definition
  ELSE LET newTargetRange == getOriginalDocRange(characterIndexes, definition.range)
           d1 == IF newTargetRange # NoRange
                 THEN [definition EXCEPT !.range = newTargetRange]
                 ELSE definition
       IN IF definition.sel # NoRange
          THEN LET newTargetSelectionRange ==
                     getOriginalDocRange(characterIndexes, definition.sel)
               IN IF newTargetSelectionRange # NoRange
                  THEN [d1 EXCEPT !.sel = newTargetRange]
                  ELSE d1
          ELSE d1

SwappedRedirections ==
  << [testedRange |-> dRange, redirectedPosition |-> eventPosition],
     [testedRange |-> eRange, redirectedPosition |-> dataSmartPosition] >>

\* redirectionFunctions = [getDefinitionOfD, getDefinitionOfE]
redirectionFunctions ==
  << [testedRange |-> dRange, redirectedPosition |-> dataSmartPosition],
     [testedRange |-> eRange, redirectedPosition |-> eventPosition] >>

----------------------------------------------------------------------------
\* What the collaborators may answer

LanguageTypes == {"python", "bash"}
LocatorAnswers == {"undefined", "null"} \cup LanguageTypes

NoInfos ==
  [present |-> FALSE, uri |-> "", language |-> "",
   characterIndexes |-> [l \in VirtualLines |-> -1]]
\* embeddedLanguageDocsManager.getEmbeddedLanguageDocInfos(uri, type)
RegistryAnswers(type) ==
  {NoInfos} \cup
  {[present |-> TRUE, uri |-> VirtualUri, language |-> type, characterIndexes |-> ci] :
     ci \in CharacterIndexesTables}

HostDefinition == Location(HostUri, <<14, 0, 14, 3>>)
\* next(document, position, token) of the definition middleware
HostDefinitionAnswers ==
  {Undefined, Null, ArrayOf(<<>>), ArrayOf(<<HostDefinition>>),
   [t |-> "single", items |-> <<HostDefinition>>]}

EmbeddedTargets ==
  {<<VirtualUri, dRange>>, <<VirtualUri, eRange>>, <<VirtualUri, otherRange>>,
   <<LibUri, dRange>>}
EmbeddedLocations == {Location(x[1], x[2]) : x \in EmbeddedTargets}
EmbeddedLocationLinks ==
  {LocationLink(x[1], x[2], NoRange) : x \in EmbeddedTargets}
  \cup {LocationLink(VirtualUri, spanningRange, otherRange),
        LocationLink(VirtualUri, otherRange, dRange)}

NoAnswer == [defined |-> FALSE, defs |-> <<>>]
Answer(defs) == [defined |-> TRUE, defs |-> defs]

\* vscode.executeDefinitionProvider at the adjusted position of the request
RequestAnswers ==
  {NoAnswer} \cup {Answer(defs) : defs \in SeqsUpTo(EmbeddedLocations, MaxDefs)}
             \cup {Answer(defs) : defs \in SeqsUpTo(EmbeddedLocationLinks, MaxDefs)}

\* vscode.executeDefinitionProvider at a redirected position; an answer may
\* itself lie on the tested range of the other redirection
RedirectAnswers(position) ==
  {NoAnswer, Answer(<<>>), Answer(<<Location(LibUri, otherRange)>>),
   Answer(<<LocationLink(LibUri, spanningRange, otherRange),
            Location(VirtualUri, otherRange)>>),
   Answer(<<Location(VirtualUri, IF position = dataSmartPosition THEN eRange ELSE dRange)>>)}

QueryPositions == {requestPosition, dataSmartPosition, eventPosition}
Backends ==
  {[p \in QueryPositions |->
      IF p = requestPosition THEN a ELSE IF p = dataSmartPosition THEN d ELSE e] :
     a \in RequestAnswers, d \in RedirectAnswers(dataSmartPosition),
     e \in RedirectAnswers(eventPosition)}
NoBackend == [p \in QueryPositions |-> NoAnswer]

\* Completion items: label, a detail telling the provider, and a range that is
\* absent, a single Range or an {inserting, replacing} pair
NoItemRange == [t |-> "none", a |-> NoRange, b |-> NoRange]
SingleRange(range) == [t |-> "single", a |-> range, b |-> NoRange]
InsertReplace(inserting, replacing) == [t |-> "pair", a |-> inserting, b |-> replacing]

Labels == {"foo", "bar"}
HostItems == {[label |-> l, detail |-> "bitbake", range |-> NoItemRange] : l \in Labels}
EmbeddedItemRanges ==
  {NoItemRange, SingleRange(otherRange), InsertReplace(otherRange, otherRange),
   InsertReplace(dRange, otherRange)}
EmbeddedItems ==
  {[label |-> l, detail |-> "python", range |-> r] : l \in Labels, r \in EmbeddedItemRanges}

CompletionListOf(items) == [t |-> "list", items |-> items]
\* next(document, position, context, token) of the completion middleware
HostCompletionAnswers ==
  {Undefined, Null} \cup {ArrayOf(items) : items \in SeqsUpTo(HostItems, MaxItems)}
                    \cup {CompletionListOf(items) : items \in SeqsUpTo(HostItems, MaxItems)}

\* vscode.executeCompletionItemProvider on the virtual document
PulledAnswers ==
  {NoAnswer} \cup {Answer(items) : items \in SeqsUpTo(EmbeddedItems, MaxItems)}

----------------------------------------------------------------------------
\* State

VARIABLES
  req,                       \* which middleware serves the request
  pc,                        \* the await the request is suspended at
  nextResult,                \* result of next(...)
  embeddedLanguageType,      \* answer of the Locator
  embeddedLanguageDocInfos,  \* answer of the registry
  calls,                     \* number of calls made to each collaborator
  backend,                   \* what the embedded definition provider answers
  tempResult,                \* the embedded provider's answer for the request
  task,                      \* processDefinitions: state of each map callback
  mq,                        \* microtask queue: callbacks whose awaited promise is settled
  result,                    \* processDefinitions: the `result` array
  origin,                    \* for each element of result, the index of the entry that pushed it
  ret,                       \* what the middleware returned
  hostResult,                \* completion: what next(...) resolved to
  pulledCompletionList,      \* completion: answer of the embedded provider
  adjustedPosition,          \* the position handed to the embedded provider
  failure,                   \* completion: the collaborator whose promise rejected
  analysis                   \* server: what the analyzer and the scanner know

vars == <<req, pc, nextResult, embeddedLanguageType, embeddedLanguageDocInfos, calls,
          backend, tempResult, task, mq, result, origin, ret, hostResult, pulledCompletionList,
          adjustedPosition, failure, analysis>>

defVars == <<backend, tempResult, task, mq, result, origin>>
complVars == <<hostResult, pulledCompletionList>>
serverVars == <<analysis>>

NoCalls == [locator |-> 0, registry |-> 0, open |-> 0, completion |-> 0, definition |-> 0]

Missing == "<undefined>"              \* undefined, or null for the word

\* no request has reached the language server
NoAnalysis ==
  [documentAsText |-> FALSE, lastScanResult |-> FALSE, includeHistory |-> <<>>,
   directiveStatementKeyword |-> Missing, directivePath |-> Missing, word |-> Missing,
   symbolKind |-> Missing, foundSymbol |-> FALSE, resolvedLocation |-> <<>>,
   isStringContent |-> FALSE, isOverride |-> FALSE, confFiles |-> <<>>]

Init ==
  /\ req = "none"
  /\ pc = "idle"
  /\ nextResult = Pending
  /\ embeddedLanguageType = "undefined"
  /\ embeddedLanguageDocInfos = NoInfos
  /\ calls = NoCalls
  /\ backend = NoBackend
  /\ tempResult = NoAnswer
  /\ task = <<>>
  /\ mq = <<>>
  /\ result = <<>>
  /\ origin = <<>>
  /\ ret = Pending
  /\ hostResult = Pending
  /\ pulledCompletionList = NoAnswer
  /\ adjustedPosition = NoPosition
  /\ failure = "none"
  /\ analysis = NoAnalysis

----------------------------------------------------------------------------
\* middlewareProvideDefinition

IsArray(value) == value.t = "array"

HostFoundOnlyArrays(value) == IsArray(value) /\ Len(value.items) # 0

\* the condition under which nextResult is returned as it is
HostFoundDefinition(value) ==
  \/ (IsArray(value) /\ Len(value.items) # 0)
  \/ (~IsArray(value) /\ value.t # "undefined")

\* await next(...); nextResult is returned when it holds something, otherwise
\* the Locator is asked for the embedded language at the position
ProvideDefinition_next ==
  /\ pc = "idle"
  /\ req' = "definition"
  /\ \E answer \in HostDefinitionAnswers :
       /\ nextResult' = answer
       /\ IF HostFoundDefinition(answer)
          THEN /\ ret' = answer
               /\ pc' = "returned"
               /\ calls' = calls
          ELSE /\ ret' = ret
               /\ pc' = "awaitType"
               /\ calls' = [calls EXCEPT !.locator = @ + 1]
  /\ UNCHANGED <<embeddedLanguageType, embeddedLanguageDocInfos, defVars, complVars,
                 adjustedPosition, failure, serverVars>>

\* await getEmbeddedLanguageTypeOnPosition(...); then the registry is read and
\* the virtual document is opened
ProvideDefinition_type ==
  /\ req = "definition" /\ pc = "awaitType"
  /\ \E type \in LocatorAnswers :
       /\ embeddedLanguageType' = type
       /\ IF type \in {"undefined", "null"}
          THEN /\ ret' = Undefined
               /\ pc' = "returned"
               /\ UNCHANGED <<embeddedLanguageDocInfos, calls>>
          ELSE \E infos \in RegistryAnswers(type) :
                 /\ embeddedLanguageDocInfos' = infos
                 /\ IF ~infos.present
                    THEN /\ ret' = Undefined
                         /\ pc' = "returned"
                         /\ calls' = [calls EXCEPT !.registry = @ + 1]
                    ELSE /\ ret' = ret
                         /\ pc' = "awaitOpen"
                         /\ calls' = [calls EXCEPT !.registry = @ + 1, !.open = @ + 1]
  /\ UNCHANGED <<req, nextResult, defVars, complVars, adjustedPosition, failure,
                 serverVars>>

\* await workspace.openTextDocument(...); the position is adjusted and the
\* embedded definition provider is queried
ProvideDefinition_open ==
  /\ req = "definition" /\ pc = "awaitOpen"
  /\ pc' = "awaitTemp"
  /\ calls' = [calls EXCEPT !.definition = @ + 1]
  /\ backend' \in Backends
  /\ adjustedPosition' =
       getEmbeddedLanguageDocPosition(embeddedLanguageDocInfos.characterIndexes, hostPosition)
  /\ UNCHANGED <<req, nextResult, embeddedLanguageType, embeddedLanguageDocInfos,
                 tempResult, task, mq, result, origin, ret, complVars, failure, serverVars>>

----------------------------------------------------------------------------
\* processDefinitions
\*
\* Each callback of definitions.map(async ...) is a task.  st is
\*   "awaitCmd"  suspended in redirectDefinition on executeCommand
\*   "awaitFn"   suspended on a redirection function whose promise is settled
\*   "done"      returned;  "rejected"  threw
\* k is the index of the redirection function being awaited.

TaskDone == [st |-> "done", k |-> 0, redirection |-> NoAnswer]

PushAll(s, i, defs) ==
  [s EXCEPT !.result = @ \o defs,
            !.origin = @ \o [j \in 1..Len(defs) |-> i],
            !.task[i] = TaskDone]

redirectDefinitionOnEveryRange(s, i, k, initialDefinition) ==
  [s EXCEPT !.task[i] = [st |-> "awaitCmd", k |-> k, redirection |-> NoAnswer],
            !.queries = @ + 1]

\* redirectDefinition, up to its await: undefined at once when the range is
\* not the tested one, otherwise the provider is queried at redirectedPosition
redirectDefinition(s, i, k, initialDefinition) ==
  IF ~checkIsDefinitionRangeEqual(initialDefinition, redirectionFunctions[k].testedRange)
  THEN [s EXCEPT !.task[i] = [st |-> "awaitFn", k |-> k, redirection |-> NoAnswer],
                 !.mq = Append(@, i)]
  ELSE [s EXCEPT !.task[i] = [st |-> "awaitCmd", k |-> k, redirection |-> NoAnswer],
                 !.queries = @ + 1]

\* changeDefinitionUri, ajustDefinitionRange, result.push(definition)
PushAdjusted(s, i, definition, infos) ==
  PushAll(s, i, <<ajustDefinitionRange(changeDefinitionUri(definition, HostUri),
                                       infos.characterIndexes)>>)

StartCallbackOnEveryUri(s, i, definition, infos) ==
  IF infos.language = "python"
  THEN redirectDefinition(s, i, 1, definition)
  ELSE PushAdjusted(s, i, definition, infos)

\* one callback of the map, from its call to its first await (or its return)
StartCallback(s, i, definition, infos) ==
  IF ~checkIsDefinitionUriEqual(definition, infos.uri)
  THEN PushAll(s, i, <<definition>>)
  ELSE IF infos.language = "python"
       THEN redirectDefinition(s, i, 1, definition)
       ELSE PushAdjusted(s, i, definition, infos)

RECURSIVE MapCallbacks(_, _, _, _)
\* definitions.map(...) calls the callbacks one after the other, synchronously
MapCallbacks(s, i, definitions, infos) ==
  IF i > Len(definitions) THEN s
  ELSE MapCallbacks(StartCallback(s, i, definitions[i], infos), i + 1, definitions, infos)

\* a callback resumes after `await redirectionFunction(definition)`
ResumeCallback(s, i, definition, infos) ==
  IF s.task[i].redirection.defined
  THEN PushAll(s, i, s.task[i].redirection.defs)
  ELSE IF s.task[i].k < Len(redirectionFunctions)
       THEN redirectDefinition(s, i, s.task[i].k + 1, definition)
       ELSE PushAdjusted(s, i, definition, infos)

ProcessState ==
  [task |-> task, result |-> result, origin |-> origin, mq |-> mq,
   queries |-> calls.definition]

SetProcessState(s) ==
  /\ task' = s.task
  /\ result' = s.result
  /\ origin' = s.origin
  /\ mq' = s.mq
  /\ calls' = [calls EXCEPT !.definition = s.queries]

\* await executeCommand(...) of the middleware; checkIsArrayLocation reads
\* array[0]; processDefinitions runs up to its await of Promise.all
ProvideDefinition_temp ==
  /\ req = "definition" /\ pc = "awaitTemp"
  /\ tempResult' = backend[requestPosition]
  /\ IF ~backend[requestPosition].defined
     THEN /\ pc' = "returned"
          /\ ret' = Rejected
          /\ UNCHANGED <<task, mq, result, origin, calls>>
     ELSE LET definitions == backend[requestPosition].defs
              s0 == [ProcessState EXCEPT
                       !.task = [i \in 1..Len(definitions) |->
                                   [st |-> "start", k |-> 0, redirection |-> NoAnswer]]]
          IN /\ SetProcessState(MapCallbacks(s0, 1, definitions, embeddedLanguageDocInfos))
             /\ pc' = "awaitAll"
             /\ ret' = ret
  /\ UNCHANGED <<req, nextResult, embeddedLanguageType, embeddedLanguageDocInfos,
                 backend, complVars, adjustedPosition, failure, serverVars>>

\* the first callback of the microtask queue resumes
RunMicrotask ==
  /\ mq # <<>>
  /\ LET i == Head(mq)
     IN SetProcessState(ResumeCallback([ProcessState EXCEPT !.mq = Tail(mq)], i,
                                       tempResult.defs[i], embeddedLanguageDocInfos))
  /\ UNCHANGED <<req, pc, nextResult, embeddedLanguageType, embeddedLanguageDocInfos,
                 backend, tempResult, ret, complVars, adjustedPosition, failure,
                 serverVars>>

\* executeCommand of redirectDefinition resolves (once no microtask is left);
\* redirectedResult.map(...) converts the results, or throws on undefined and
\* Promise.all rejects
CommandResolves(i) ==
  /\ mq = <<>>
  /\ task[i].st = "awaitCmd"
  /\ LET redirectedResult == backend[redirectionFunctions[task[i].k].redirectedPosition]
     IN IF ~redirectedResult.defined
        THEN /\ task' = [task EXCEPT ![i].st = "rejected"]
             /\ mq' = mq
             /\ IF pc = "awaitAll"
                THEN pc' = "returned" /\ ret' = Rejected
                ELSE UNCHANGED <<pc, ret>>
        ELSE /\ task' = [task EXCEPT ![i].st = "awaitFn",
                                     ![i].redirection =
                                        Answer(ConvertAll(tempResult.defs[i],
                                                          redirectedResult.defs))]
             /\ mq' = Append(mq, i)
             /\ UNCHANGED <<pc, ret>>
  /\ UNCHANGED <<req, nextResult, embeddedLanguageType, embeddedLanguageDocInfos, calls,
                 backend, tempResult, result, origin, complVars, adjustedPosition,
                 failure, serverVars>>

\* Promise.all resolves when every callback has returned
ProcessDefinitions_return ==
  /\ req = "definition" /\ pc = "awaitAll"
  /\ \A i \in DOMAIN task : task[i].st = "done"
  /\ pc' = "returned"
  /\ ret' = ArrayOf(result)
  /\ UNCHANGED <<req, nextResult, embeddedLanguageType, embeddedLanguageDocInfos, calls,
                 defVars, complVars, adjustedPosition, failure, serverVars>>

DefinitionNext ==
  \/ ProvideDefinition_next
  \/ ProvideDefinition_type
  \/ ProvideDefinition_open
  \/ ProvideDefinition_temp
  \/ RunMicrotask
  \/ \E i \in DOMAIN task : CommandResolves(i)
  \/ ProcessDefinitions_return

----------------------------------------------------------------------------
\* middlewareProvideCompletion

\* (completionItem) => completionItem.label
getUniqueKey(completionItem) == completionItem.label

RECURSIVE mergeArraysDistinctly(_, _)
\* ../lib/src/utils/arrays: the items of the arrays in first-seen order, one
\* item per key
mergeArraysDistinctly(first, second) ==
  IF first = <<>>
  THEN IF second = <<>> THEN <<>> ELSE mergeArraysDistinctly(second, <<>>)
  ELSE LET key == getUniqueKey(Head(first))
           Other(item) == getUniqueKey(item) # key
       IN <<Head(first)>> \o
          mergeArraysDistinctly(SelectSeq(Tail(first), Other), SelectSeq(second, Other))

IsUndefined(type) == type = "undefined"

\* embeddedLanguageType === undefined || embeddedLanguageType === null
IsUndefinedOrNull(type) == type = "undefined" \/ type = "null"

\* next(...) ?? []
OrEmptyArray(value) == IF value.t \in {"undefined", "null"} THEN ArrayOf(<<>>) ELSE value

\* the callback of pulledCompletionList.items.forEach
AdjustItemRange(item, characterIndexes) ==
  IF item.range.t = "none" THEN item
  ELSE IF item.range.t = "single"
  THEN LET range == getOriginalDocRange(characterIndexes, item.range.a)
       IN [item EXCEPT !.range = IF range = NoRange THEN NoItemRange ELSE SingleRange(range)]
  ELSE LET inserting == getOriginalDocRange(characterIndexes, item.range.a)
           replacing == getOriginalDocRange(characterIndexes, item.range.b)
       IN IF inserting = NoRange \/ replacing = NoRange
          THEN item
          ELSE [item EXCEPT !.range = InsertReplace(inserting, replacing)]

\* pulledCompletionList.items.forEach(...)
AdjustAll(items, characterIndexes) ==
  [k \in DOMAIN items |-> AdjustItemRange(items[k], characterIndexes)]

OnlyPulledItems(items, value) == items

\* the return statement: the pulled items merged with the items of nextResult
MergedCompletion(items, value) == mergeArraysDistinctly(items, value.items)

\* the awaited promise of a collaborator rejects: nothing catches it and the
\* promise of the middleware rejects
Rejects(collaborator) ==
  /\ failure' = collaborator
  /\ ret' = Rejected
  /\ pc' = "returned"

\* await next(...) ?? []; the Locator is asked
ProvideCompletion_next ==
  /\ pc = "idle"
  /\ req' = "completion"
  /\ \E answer \in HostCompletionAnswers :
       /\ hostResult' = answer
       /\ nextResult' = OrEmptyArray(answer)
  /\ pc' = "awaitType"
  /\ calls' = [calls EXCEPT !.locator = @ + 1]
  /\ UNCHANGED <<embeddedLanguageType, embeddedLanguageDocInfos, defVars, ret,
                 pulledCompletionList, adjustedPosition, failure, serverVars>>

\* await getEmbeddedLanguageTypeOnPosition(...); the registry is read and the
\* virtual document is opened
ProvideCompletion_type ==
  /\ req = "completion" /\ pc = "awaitType"
  /\ \/ \E type \in LocatorAnswers :
          /\ embeddedLanguageType' = type
          /\ failure' = failure
          /\ IF IsUndefinedOrNull(type)
             THEN /\ ret' = nextResult
                  /\ pc' = "returned"
                  /\ UNCHANGED <<embeddedLanguageDocInfos, calls>>
             ELSE \E infos \in RegistryAnswers(type) :
                    /\ embeddedLanguageDocInfos' = infos
                    /\ IF ~infos.present
                       THEN /\ ret' = Undefined
                            /\ pc' = "returned"
                            /\ calls' = [calls EXCEPT !.registry = @ + 1]
                       ELSE /\ ret' = ret
                            /\ pc' = "awaitOpen"
                            /\ calls' = [calls EXCEPT !.registry = @ + 1, !.open = @ + 1]
     \/ Rejects("locator")
        /\ UNCHANGED <<embeddedLanguageType, embeddedLanguageDocInfos, calls>>
  /\ UNCHANGED <<req, nextResult, defVars, complVars, adjustedPosition, serverVars>>

\* await workspace.openTextDocument(...); the embedded completion provider is queried
ProvideCompletion_open ==
  /\ req = "completion" /\ pc = "awaitOpen"
  /\ \/ /\ pc' = "awaitPulled"
        /\ calls' = [calls EXCEPT !.completion = @ + 1]
        /\ adjustedPosition' =
             getEmbeddedLanguageDocPosition(embeddedLanguageDocInfos.characterIndexes,
                                            hostPosition)
        /\ UNCHANGED <<ret, failure>>
     \/ Rejects("open")
        /\ UNCHANGED <<calls, adjustedPosition>>
  /\ UNCHANGED <<req, nextResult, embeddedLanguageType, embeddedLanguageDocInfos,
                 defVars, complVars, serverVars>>

\* await executeCommand(...); the ranges of the pulled items are mapped to the
\* original document and the items are merged with nextResult
ProvideCompletion_pulled ==
  /\ req = "completion" /\ pc = "awaitPulled"
  /\ \/ \E answer \in PulledAnswers :
          /\ pulledCompletionList' = answer
          /\ IF ~answer.defined
             THEN ret' = Rejected
             ELSE ret' = ArrayOf(MergedCompletion(
                            AdjustAll(answer.defs, embeddedLanguageDocInfos.characterIndexes),
                            nextResult))
          /\ pc' = "returned"
          /\ failure' = failure
     \/ Rejects("provider")
        /\ UNCHANGED pulledCompletionList
  /\ UNCHANGED <<req, nextResult, embeddedLanguageType, embeddedLanguageDocInfos, calls,
                 defVars, hostResult, adjustedPosition, serverVars>>

CompletionNext ==
  \/ ProvideCompletion_next
  \/ ProvideCompletion_type
  \/ ProvideCompletion_open
  \/ ProvideCompletion_pulled

----------------------------------------------------------------------------
\* onDefinitionHandler (language server)

NoPath == [dir |-> <<>>, base |-> <<>>, name |-> Missing, ext |-> Missing]

\* ParsedPath; dir and base are sequences of pieces of text, a blank being a
\* piece of its own
ParsedPath(dir, name, ext) ==
  [dir |-> dir, base |-> <<name \o ext>>, name |-> name, ext |-> ext]

MachineConfOfBsp == ParsedPath(<<"/layers/meta", " ", "bsp/conf/machine">>, "qemux86", ".conf")
MachineConfOfCore == ParsedPath(<<"/layers/meta/conf/machine">>, "qemux86", ".conf")
MachineInc == ParsedPath(<<"/layers/meta/conf/machine/include">>, "qemux86", ".inc")
BaseClass == ParsedPath(<<"/layers/meta/classes">>, "base", ".bbclass")
BaseInc == ParsedPath(<<"/layers/meta/recipes">>, "base", ".inc")

ElementInfo(name, path) == [name |-> name, path |-> path]

RecipeUri == <<"file:///layers/meta/recipes/busybox.bb">>
IncludedUri == <<"file:///layers/meta/recipes/busybox.inc">>
HistoryUri == <<"file:///layers/meta/conf/bitbake.conf">>
ContainerUri == <<"file:///workdir/layers/meta/conf/bitbake.conf">>

Symbol(name, kind, uri, line) ==
  [name |-> name, kind |-> kind, location |-> [uri |-> uri, range |-> <<line, 0, line, 7>>]]

\* analyzer.getGlobalDeclarationSymbols of the document and of its includes
DeclarationSymbols ==
  << Symbol("qemux86", "Variable", RecipeUri, 4),
     Symbol("qemux86", "Function", RecipeUri, 9),
     Symbol("other", "Variable", RecipeUri, 6),
     Symbol("qemux86", "Variable", IncludedUri, 1) >>

\* analyzer.getSymbolsInStringContent
StringContentSymbols == << Symbol("qemux86", "Variable", IncludedUri, 3) >>

\* analyzer.extractModificationHistoryFromComments of the matched symbol
ModificationHistory == << [uri |-> HistoryUri, range |-> <<20, 0, 20, 0>>] >>

IncludeHistories ==
  { <<>>, <<MachineInc, MachineConfOfBsp, MachineConfOfCore>>, <<BaseInc>> }
ConfFiles ==
  { <<>>, <<ElementInfo("qemux86", MachineConfOfCore)>>,
    <<ElementInfo("qemux86", NoPath), ElementInfo("qemux86", MachineConfOfCore)>> }

AnalyzerAnswers ==
  [documentAsText : BOOLEAN,
   lastScanResult : BOOLEAN,
   includeHistory : IncludeHistories,
   directiveStatementKeyword : {Missing, "inherit", "require", "include"},
   directivePath : {Missing, "base"},
   word : {Missing, "qemux86"},
   symbolKind : {Missing, "Variable", "Function", "Class"},
   foundSymbol : BOOLEAN,
   resolvedLocation : {<<>>, ContainerUri},
   isStringContent : BOOLEAN,
   isOverride : BOOLEAN,
   confFiles : ConfFiles]

\* what the analyzer, the project scanner and the connection answer to one
\* request: the include history and the matched symbol belong to the last scan
\* result, the symbol at point to the word, the resolved location to the
\* modification history of the matched symbol
Analyses ==
  {a \in AnalyzerAnswers :
     /\ ~a.lastScanResult => a.includeHistory = <<>> /\ ~a.foundSymbol
     /\ a.word = Missing => a.symbolKind = Missing
     /\ ~a.foundSymbol => a.resolvedLocation = <<>>}

\* bitBakeProjectScannerClient.bitbakeScanResult._classes
ScannerClasses ==
  << ElementInfo("base", BaseClass), ElementInfo("base", NoPath),
     ElementInfo("kernel", ParsedPath(<<"/layers/meta/classes">>, "kernel", ".bbclass")) >>

\* analyzer.resolveSymbol(directivePath, lastScanResult.symbols)
resolveSymbol(directivePath) == IF directivePath = "base" THEN "kernel" ELSE directivePath

\* analyzer.findFilesInProjectScanner(directivePath)
findFilesInProjectScanner(directivePath) ==
  IF directivePath = "base" THEN <<ElementInfo("base", BaseInc)>> ELSE <<>>

\* encodeURI on the pieces of a url: a blank is escaped
encodeURI(url) == [k \in DOMAIN url |-> IF url[k] = " " THEN "%20" ELSE url[k]]

createDefinitionLocationForPathInfo(path) ==
  [uri |-> encodeURI(<<"file://">> \o path.dir \o <<"/">> \o path.base),
   range |-> <<0, 0, 0, 0>>]

\* Array.prototype.find, as the index of the first element that satisfies the
\* test, 0 when none does
FirstIndex(found) ==
  IF found = {} THEN 0 ELSE CHOOSE k \in found : \A j \in found : k <= j

\* lastScanResult.includeHistory.find(ext === '.conf' && name === word)
findTargetPath(includeHistory, word) ==
  FirstIndex({k \in DOMAIN includeHistory :
                includeHistory[k].ext = ".conf" /\ includeHistory[k].name = word})

\* bitbakeScanResult._confFiles.find(name === word)
findOverrideFile(confFiles, word) ==
  FirstIndex({k \in DOMAIN confFiles : confFiles[k].name = word})

getDefinitionForDirectives(directiveStatementKeyword, directivePath) ==
  LET elementInfos ==
        IF directiveStatementKeyword = "inherit"
        THEN SelectSeq(ScannerClasses, LAMBDA bbclass : bbclass.name = directivePath)
        ELSE IF directiveStatementKeyword \in {"require", "include"}
        THEN findFilesInProjectScanner(directivePath)
        ELSE <<>>
      withPath == SelectSeq(elementInfos, LAMBDA elementInfo : elementInfo.path # NoPath)
  IN [k \in DOMAIN withPath |-> createDefinitionLocationForPathInfo(withPath[k].path)]

getAllDefinitionSymbolsForSymbolAtPoint(word, symbolKind) ==
  IF symbolKind = Missing THEN <<>>
  ELSE SelectSeq(DeclarationSymbols,
                 LAMBDA symbol : symbol.name = word /\ symbol.kind = symbolKind)

\* the directive branch: require, inherit & include directives
DirectiveFound(a) == a.directiveStatementKeyword # Missing /\ a.directivePath # Missing
DirectiveDefinitions(a) ==
  getDefinitionForDirectives(a.directiveStatementKeyword,
                             IF a.lastScanResult THEN resolveSymbol(a.directivePath)
                             ELSE a.directivePath)

\* the branch of a variable or function symbol at point
SymbolFound(a) == a.symbolKind \in {"Variable", "Function"}
SymbolDefinitions(a) ==
  LET symbols == getAllDefinitionSymbolsForSymbolAtPoint(a.word, a.symbolKind)
      history == IF a.lastScanResult /\ a.foundSymbol THEN ModificationHistory ELSE <<>>
  IN [k \in DOMAIN symbols |-> symbols[k].location]
     \o [k \in DOMAIN history |->
           [uri |-> IF a.resolvedLocation # <<>> THEN a.resolvedLocation ELSE history[k].uri,
            range |-> history[k].range]]

\* the branch of symbols in string content
StringContentDefinitions(a) ==
  [k \in DOMAIN StringContentSymbols |->
     [uri |-> StringContentSymbols[k].location.uri, range |-> <<0, 0, 0, 0>>]]

OverrideFromScannerFirst(a) ==
  LET overrideFile == findOverrideFile(a.confFiles, a.word)
      targetPath == findTargetPath(a.includeHistory, a.word)
  IN IF overrideFile # 0 /\ a.confFiles[overrideFile].path # NoPath
     THEN <<createDefinitionLocationForPathInfo(a.confFiles[overrideFile].path)>>
     ELSE IF a.lastScanResult /\ targetPath # 0
     THEN <<createDefinitionLocationForPathInfo(a.includeHistory[targetPath])>>
     ELSE <<>>

\* the branch of overrides: the include history of the last scan, then the
\* conf files of the project scanner
OverrideDefinitions(a) ==
  LET targetPath == findTargetPath(a.includeHistory, a.word)
      overrideFile == findOverrideFile(a.confFiles, a.word)
  IN IF a.lastScanResult /\ targetPath # 0
     THEN <<createDefinitionLocationForPathInfo(a.includeHistory[targetPath])>>
     ELSE IF overrideFile # 0 /\ a.confFiles[overrideFile].path # NoPath
     THEN <<createDefinitionLocationForPathInfo(a.confFiles[overrideFile].path)>>
     ELSE <<>>

onDefinitionSymbolsFirst(a) ==
  IF ~a.documentAsText THEN <<>>
  ELSE IF a.word # Missing /\ SymbolFound(a) THEN SymbolDefinitions(a)
  ELSE IF DirectiveFound(a) THEN DirectiveDefinitions(a)
  ELSE IF a.word = Missing THEN <<>>
  ELSE IF a.isStringContent THEN StringContentDefinitions(a)
  ELSE IF a.isOverride THEN OverrideDefinitions(a)
  ELSE <<>>

\* the locations onDefinitionHandler resolves to
onDefinitionResult(a) ==
  IF ~a.documentAsText THEN <<>>
  ELSE IF DirectiveFound(a) THEN DirectiveDefinitions(a)
  ELSE IF a.word = Missing THEN <<>>
  ELSE IF SymbolFound(a) THEN SymbolDefinitions(a)
  ELSE IF a.isStringContent THEN StringContentDefinitions(a)
  ELSE IF a.isOverride THEN OverrideDefinitions(a)
  ELSE <<>>

onDefinitionHandler ==
  /\ pc = "idle"
  /\ req' = "onDefinition"
  /\ \E a \in Analyses :
       /\ analysis' = a
       /\ ret' = ArrayOf(onDefinitionResult(a))
  /\ pc' = "returned"
  /\ UNCHANGED <<nextResult, embeddedLanguageType, embeddedLanguageDocInfos, calls,
                 defVars, complVars, adjustedPosition, failure>>

ServerNext == onDefinitionHandler

Next == DefinitionNext \/ CompletionNext \/ ServerNext

Spec == Init /\ [][Next]_vars

\* every pending promise of a middleware is settled and every settled promise
\* is resumed; the handler of the language server is one step with nothing to
\* resume
FairSpec == Spec /\ WF_vars(DefinitionNext \/ CompletionNext)

----------------------------------------------------------------------------
\* Properties

CompletionReturned == req = "completion" /\ pc = "returned"
\* the completion request went through the embedded provider and returned
CompletionMerged ==
  CompletionReturned /\ pulledCompletionList.defined /\ failure = "none"
\* the definition request returned the list built by processDefinitions
DefinitionsProcessed ==
  req = "definition" /\ pc = "returned" /\ tempResult.defined /\ ret.t = "array"

LabelsOf(items) == {items[k].label : k \in DOMAIN items}

\* the elements of result pushed for entry i of the embedded provider's answer
Contribution(i) ==
  LET positions == SelectSeq([k \in 1..Len(origin) |-> k], LAMBDA k : origin[k] = i)
  IN [j \in 1..Len(positions) |-> result[positions[j]]]

\* entry i is subject to a redirection: python, and exactly on dRange or eRange
OnTriggerRange(i) ==
  /\ embeddedLanguageDocInfos.language = "python"
  /\ tempResult.defs[i].uri = VirtualUri
  /\ tempResult.defs[i].range \in {dRange, eRange}

\* C1: when the host definition provider returns a non-empty array or a single
\* definition, the request returns that very value and neither the Locator,
\* the registry, the virtual document nor the embedded provider is called.
C1_HostDefinitionReturnedVerbatim ==
  (/\ req = "definition"
   /\ \/ nextResult.t = "single"
      \/ (nextResult.t = "array" /\ nextResult.items # <<>>))
  => /\ pc = "returned"
     /\ ret = nextResult
     /\ calls = NoCalls

C1_Witness ==
  /\ req = "definition" /\ pc = "returned"
  /\ nextResult.t = "single" /\ ret = nextResult

\* C2: when the Locator answers undefined or null, the completion request
\* returns the items of the host provider, in the same order (the host's own
\* array or CompletionList when there is one), and the registry, the virtual
\* document and the embedded completion provider are not called.
C2_NoEmbeddedLanguageReturnsHostResult ==
  (CompletionReturned /\ failure = "none" /\ embeddedLanguageType \in {"undefined", "null"})
  => /\ ret.items = hostResult.items
     /\ (hostResult.t \in {"array", "list"} => ret = hostResult)
     /\ ret.t \in {"array", "list"}
     /\ calls.registry = 0 /\ calls.open = 0 /\ calls.completion = 0

C2_Witness ==
  /\ CompletionReturned /\ failure = "none" /\ embeddedLanguageType = "null"
  /\ Len(hostResult.items) = 2 /\ hostResult.items[1] # hostResult.items[2]
  /\ ret = hostResult

\* C3: when the Locator answers a language but the registry has no
\* EmbeddedLanguageDocInfos, the completion request returns the host result,
\* not undefined.
C3_MissingInfosReturnsHostResult ==
  (/\ CompletionReturned
   /\ embeddedLanguageType \in LanguageTypes
   /\ ~embeddedLanguageDocInfos.present)
  => ret = nextResult

\* C4: on the embedded path the returned list holds exactly one item for each
\* label of the host items and of the embedded items: none twice, none missing.
C4_OneItemPerLabel ==
  CompletionMerged
  => /\ \A j, k \in DOMAIN ret.items : ret.items[j].label = ret.items[k].label => j = k
     /\ LabelsOf(ret.items) = LabelsOf(hostResult.items) \cup LabelsOf(pulledCompletionList.defs)

C4_Witness ==
  /\ CompletionMerged
  /\ LabelsOf(hostResult.items) = {"foo"}
  /\ Len(pulledCompletionList.defs) = 2
  /\ LabelsOf(pulledCompletionList.defs) = {"foo", "bar"}
  /\ Len(ret.items) = 2

\* C5: in the merged list a label shared by a host item and an embedded item
\* is represented by the host's item, and the host items come before the
\* embedded-only items.
C5_HostItemsWinAndComeFirst ==
  CompletionMerged
  => /\ \A k \in DOMAIN ret.items :
          ret.items[k].label \in LabelsOf(hostResult.items)
          => ret.items[k].detail = "bitbake"
     /\ \A j, k \in DOMAIN ret.items :
          (ret.items[j].detail = "bitbake" /\ ret.items[k].detail = "python") => j < k

\* C6: no returned completion item carries a range in the coordinates of the
\* virtual document; a range whose translation fails is dropped.
C6_NoVirtualRangeReturned ==
  CompletionMerged
  => \A k \in DOMAIN ret.items :
       /\ ~IsVirtualSpaceRange(ret.items[k].range.a)
       /\ ~IsVirtualSpaceRange(ret.items[k].range.b)

\* C7: an entry on the virtual document whose range cannot be translated (and
\* that is not redirected) contributes nothing to the returned list, and no
\* returned entry joins the host URI to a range of the virtual document.
C7_UntranslatableEntryDropped ==
  DefinitionsProcessed
  => /\ \A i \in DOMAIN tempResult.defs :
          (/\ tempResult.defs[i].uri = VirtualUri
           /\ ~OnTriggerRange(i)
           /\ getOriginalDocRange(embeddedLanguageDocInfos.characterIndexes,
                                  tempResult.defs[i].range) = NoRange)
          => Contribution(i) = <<>>
     /\ \A k \in DOMAIN ret.items :
          ~(ret.items[k].uri = HostUri /\ IsVirtualSpaceRange(ret.items[k].range))

\* C8: the returned list keeps the order of the entries of the embedded
\* provider's answer, whatever the order in which the callbacks complete.
C8_InputOrderKept ==
  DefinitionsProcessed
  => \A j, k \in DOMAIN origin : j < k => origin[j] <= origin[k]

\* C9: with python, an entry on the virtual document whose range is dRange
\* (eRange) contributes exactly the answer of the embedded provider at
\* dataSmartPosition (eventPosition), in the shape of the entry, and neither
\* the entry nor its translation to the host document is part of it.
C9_RedirectedToConfiguredPosition ==
  DefinitionsProcessed /\ embeddedLanguageDocInfos.language = "python"
  => \A i \in DOMAIN tempResult.defs :
       LET entry == tempResult.defs[i]
           Expected(position) ==
             [k \in DOMAIN backend[position].defs |->
                convertToSameDefinitionType(entry, backend[position].defs[k])]
           SameShape(position) ==
             \A k \in DOMAIN backend[position].defs :
               backend[position].defs[k].shape = entry.shape
       IN /\ (entry.uri = VirtualUri /\ entry.range = dRange)
             => /\ Contribution(i) = Expected(dataSmartPosition)
                /\ SameShape(dataSmartPosition)
                   => Contribution(i) = backend[dataSmartPosition].defs
          /\ (entry.uri = VirtualUri /\ entry.range = eRange)
             => /\ Contribution(i) = Expected(eventPosition)
                /\ SameShape(eventPosition)
                   => Contribution(i) = backend[eventPosition].defs
          /\ (entry.uri = VirtualUri /\ entry.range \in {dRange, eRange})
             => \A k \in DOMAIN Contribution(i) :
                  /\ Contribution(i)[k] # entry
                  /\ Contribution(i)[k].uri # HostUri

C9_Witness ==
  /\ DefinitionsProcessed /\ embeddedLanguageDocInfos.language = "python"
  /\ backend[dataSmartPosition] # backend[eventPosition]
  /\ \E i \in DOMAIN tempResult.defs :
       /\ tempResult.defs[i].uri = VirtualUri
       /\ tempResult.defs[i].range = dRange
       /\ Len(Contribution(i)) = 2

\* C10: an entry on the virtual document that is not redirected and whose
\* range translates is returned with the URI of the host document and with
\* the translation of its range as range (Location) or targetRange
\* (LocationLink).
C10_TranslatedToHostDocument ==
  DefinitionsProcessed
  => \A i \in DOMAIN tempResult.defs :
       LET entry == tempResult.defs[i]
           hostRange == getOriginalDocRange(embeddedLanguageDocInfos.characterIndexes,
                                            entry.range)
       IN (entry.uri = VirtualUri /\ ~OnTriggerRange(i) /\ hostRange # NoRange)
          => /\ Len(Contribution(i)) = 1
             /\ Contribution(i)[1].uri = HostUri
             /\ Contribution(i)[1].range = hostRange
             /\ Contribution(i)[1].shape = entry.shape

C10_Witness ==
  /\ DefinitionsProcessed
  /\ nextResult.t = "array" /\ nextResult.items = <<>>
  /\ \E i \in DOMAIN tempResult.defs :
       /\ tempResult.defs[i].shape = "LocationLink"
       /\ tempResult.defs[i].uri = VirtualUri
       /\ tempResult.defs[i].range = otherRange
       /\ Contribution(i) = <<LocationLink(HostUri, <<15, 4, 15, 9>>, NoRange)>>

\* C11: when the embedded provider answers undefined, the completion request
\* returns the host result and the definition request returns an empty
\* result; the promise of the middleware does not reject.
C11_UndefinedAnswerIsNoContribution ==
  /\ (/\ CompletionReturned /\ failure = "none"
      /\ calls.completion = 1 /\ ~pulledCompletionList.defined)
     => ret = nextResult
  /\ (/\ req = "definition" /\ pc = "returned"
      /\ calls.definition >= 1 /\ ~tempResult.defined)
     => (ret.t \in {"undefined", "array"} /\ ret.items = <<>>)

\* C12: once next(...) has resolved, the completion request resolves with the
\* host items even when the Locator, the opening of the virtual document or
\* the embedded completion provider fails.
C12_HostResultSurvivesFailures ==
  (CompletionReturned /\ failure # "none")
  => (ret.t # "rejected" /\ ret.items = hostResult.items)

\* C13: an entry that is not on the virtual document is returned as it is; its
\* callback returns at once, without entering a redirection function and
\* without asking the embedded provider again.
C13_ForeignEntryPassesThrough ==
  (req = "definition" /\ tempResult.defined)
  => \A i \in DOMAIN task :
       tempResult.defs[i].uri # VirtualUri
       => /\ task[i] = TaskDone
          /\ Contribution(i) = <<tempResult.defs[i]>>
          /\ calls.definition <=
               1 + Cardinality({j \in DOMAIN task : tempResult.defs[j].uri = VirtualUri})

C13_Witness ==
  /\ DefinitionsProcessed
  /\ embeddedLanguageDocInfos.language = "python"
  /\ tempResult.defs = <<Location(LibUri, dRange)>>
  /\ ret.items = tempResult.defs
  /\ calls.definition = 1

\* C14: the entries of the returned list, those spliced in by a redirection
\* included, all have the shape of the entries answered by the embedded
\* provider.
C14_ShapeHomogeneous ==
  DefinitionsProcessed
  => \A k \in DOMAIN ret.items : \A i \in DOMAIN tempResult.defs :
       ret.items[k].shape = tempResult.defs[i].shape

C14_Witness ==
  /\ DefinitionsProcessed
  /\ Len(backend[dataSmartPosition].defs) = 2
  /\ backend[dataSmartPosition].defs[1].shape = "LocationLink"
  /\ tempResult.defs = <<Location(VirtualUri, dRange)>>
  /\ Len(ret.items) = 2

\* the embedded provider is asked once for the request and once more for each
\* entry on a tested range, whatever the redirected answers hold
OneHop ==
  /\ (req = "definition" /\ tempResult.defined)
     => /\ calls.definition <= 1 + Len(tempResult.defs)
        /\ \A i \in DOMAIN task :
             (task[i].st = "awaitCmd" \/ task[i].redirection.defined) => OnTriggerRange(i)
  /\ DefinitionsProcessed
     => /\ calls.definition =
             1 + Cardinality({i \in DOMAIN tempResult.defs : OnTriggerRange(i)})
        /\ \A i \in DOMAIN tempResult.defs :
             OnTriggerRange(i)
             => Len(Contribution(i)) =
                  Len(backend[IF tempResult.defs[i].range = dRange
                              THEN dataSmartPosition ELSE eventPosition].defs)

\* C15: a definition request asks the embedded provider at most 1 + n times
\* for n entries, one re-query per entry on a tested range and none for the
\* entries a re-query returns, and the request returns.
C15_OneHopAndReturns == []OneHop /\ <>(pc = "returned")

C15_Witness ==
  /\ DefinitionsProcessed
  /\ tempResult.defs = <<Location(VirtualUri, dRange)>>
  /\ ret.items = <<Location(VirtualUri, eRange)>>
  /\ calls.definition = 2

\* C16: whenever the host definition provider found nothing (undefined, null
\* or an empty array) the Locator is asked and, with an embedded language and
\* a registry entry, the embedded definition provider is asked.
C16_EmbeddedLookupOnEveryNothing ==
  (/\ req = "definition"
   /\ \/ nextResult.t \in {"undefined", "null"}
      \/ (nextResult.t = "array" /\ nextResult.items = <<>>))
  => /\ calls.locator = 1
     /\ (/\ pc \notin {"awaitType", "awaitOpen"}
         /\ embeddedLanguageType \in LanguageTypes
         /\ embeddedLanguageDocInfos.present)
        => calls.definition >= 1

\* C17: a LocationLink on the virtual document with a targetSelectionRange is
\* returned with targetSelectionRange the translation of its
\* targetSelectionRange and targetRange the translation of its targetRange.
C17_SelectionRangeTranslated ==
  DefinitionsProcessed
  => \A i \in DOMAIN tempResult.defs :
       LET entry == tempResult.defs[i]
           hostRange == getOriginalDocRange(embeddedLanguageDocInfos.characterIndexes,
                                            entry.range)
           hostSel == getOriginalDocRange(embeddedLanguageDocInfos.characterIndexes,
                                          entry.sel)
       IN (/\ entry.shape = "LocationLink" /\ entry.uri = VirtualUri
           /\ entry.sel # NoRange /\ ~OnTriggerRange(i)
           /\ hostRange # NoRange /\ hostSel # NoRange)
          => /\ Len(Contribution(i)) = 1
             /\ Contribution(i)[1].range = hostRange
             /\ Contribution(i)[1].sel = hostSel

\* the virtual document is open and the position of the request was adjusted
PositionAdjusted ==
  /\ req \in {"definition", "completion"}
  /\ calls.open = 1 /\ pc # "awaitOpen" /\ failure # "open"

\* C18: when the position of the request has no counterpart in the virtual
\* document (the adjusted position is undefined) the embedded provider is not
\* asked and the request gives the host-only result.
C18_NoQueryWithoutPosition ==
  (PositionAdjusted /\ adjustedPosition = NoPosition)
  => /\ calls.definition = 0 /\ calls.completion = 0
     /\ pc = "returned" => ret \in {nextResult, Undefined, ArrayOf(<<>>)}

----------------------------------------------------------------------------
\* onDefinitionHandler

OnDefinitionReturned == req = "onDefinition" /\ pc = "returned"

ZeroRange == <<0, 0, 0, 0>>
BaseClassLocation ==
  [uri |-> <<"file://", "/layers/meta/classes", "/", "base.bbclass">>, range |-> ZeroRange]
KernelClassLocation ==
  [uri |-> <<"file://", "/layers/meta/classes", "/", "kernel.bbclass">>, range |-> ZeroRange]
BaseIncLocation ==
  [uri |-> <<"file://", "/layers/meta/recipes", "/", "base.inc">>, range |-> ZeroRange]
BspConfLocation ==
  [uri |-> <<"file://", "/layers/meta", "%20", "bsp/conf/machine", "/", "qemux86.conf">>,
   range |-> ZeroRange]
CoreConfLocation ==
  [uri |-> <<"file://", "/layers/meta/conf/machine", "/", "qemux86.conf">>, range |-> ZeroRange]

DirectiveAtPosition ==
  analysis.directiveStatementKeyword # Missing /\ analysis.directivePath # Missing
SymbolAtPoint ==
  analysis.word # Missing /\ analysis.symbolKind \in {"Variable", "Function"}
StringContentAtPoint == analysis.word # Missing /\ analysis.isStringContent
OverrideAtPoint == analysis.word # Missing /\ analysis.isOverride

\* what the directive at the position resolves to in the project scanner
ExpectedDirectiveLocations ==
  IF analysis.directiveStatementKeyword = "inherit"
  THEN IF analysis.lastScanResult THEN <<KernelClassLocation>> ELSE <<BaseClassLocation>>
  ELSE IF analysis.lastScanResult THEN <<>> ELSE <<BaseIncLocation>>

\* C19: onDefinitionHandler answers from the first branch that matches, in the
\* order directive, variable or function symbol at point, string content,
\* override, and returns the locations of that branch only: with a directive
\* keyword and a directive path at the position the result is exactly the
\* locations of the directive, possibly none; when no branch matches or the text
\* of the document is unknown the result is the empty list, and it is never null.
C19_FirstMatchingBranchOnly ==
  OnDefinitionReturned =>
    /\ ret.t = "array"
    /\ ~analysis.documentAsText => ret.items = <<>>
    /\ analysis.documentAsText /\ DirectiveAtPosition =>
         ret.items = ExpectedDirectiveLocations
    /\ analysis.documentAsText /\ ~DirectiveAtPosition /\ SymbolAtPoint =>
         /\ ret.items # <<>>
         /\ \A k \in DOMAIN ret.items :
              /\ ret.items[k].uri \in {RecipeUri, IncludedUri, HistoryUri, ContainerUri}
              /\ ret.items[k].range # ZeroRange
    /\ analysis.documentAsText /\ ~DirectiveAtPosition /\ ~SymbolAtPoint
         /\ StringContentAtPoint =>
         ret.items = <<[uri |-> IncludedUri, range |-> ZeroRange]>>
    /\ analysis.documentAsText /\ ~DirectiveAtPosition /\ ~SymbolAtPoint
         /\ ~StringContentAtPoint /\ OverrideAtPoint =>
         \A k \in DOMAIN ret.items : ret.items[k] \in {BspConfLocation, CoreConfLocation}
    /\ analysis.documentAsText /\ ~DirectiveAtPosition /\ ~SymbolAtPoint
         /\ ~StringContentAtPoint /\ ~OverrideAtPoint =>
         ret.items = <<>>

\* every branch matches and the directive is the one that answers
C19_Witness ==
  /\ OnDefinitionReturned
  /\ analysis.documentAsText
  /\ analysis.directiveStatementKeyword = "inherit"
  /\ DirectiveAtPosition /\ SymbolAtPoint /\ StringContentAtPoint /\ OverrideAtPoint
  /\ ~analysis.lastScanResult
  /\ ret.items = <<BaseClassLocation>>

InOverrideBranch ==
  /\ OnDefinitionReturned
  /\ analysis.documentAsText
  /\ ~DirectiveAtPosition /\ ~SymbolAtPoint /\ ~StringContentAtPoint
  /\ OverrideAtPoint

\* the '.conf' entries of the include history of the last scan named as the word
ConfEntriesOfHistory ==
  IF analysis.lastScanResult
  THEN {k \in DOMAIN analysis.includeHistory :
          /\ analysis.includeHistory[k].ext = ".conf"
          /\ analysis.includeHistory[k].name = analysis.word}
  ELSE {}

\* the conf files of the project scanner named as the word
ConfFilesOfScanner ==
  {k \in DOMAIN analysis.confFiles : analysis.confFiles[k].name = analysis.word}

\* C20: in the override branch a '.conf' entry of the include history of the
\* last scan named as the word goes before a conf file of the project scanner
\* of that name: the result is then the one location built from the path of the
\* include history; the conf file of the project scanner answers only without
\* such an entry or without a scan result; with neither the result is empty.
C20_IncludeHistoryBeforeScannerConf ==
  InOverrideBranch =>
    /\ ConfEntriesOfHistory # {} =>
         /\ Len(ret.items) = 1
         /\ \E k \in ConfEntriesOfHistory :
              /\ \A j \in ConfEntriesOfHistory : k <= j
              /\ ret.items[1] = createDefinitionLocationForPathInfo(analysis.includeHistory[k])
    /\ ConfEntriesOfHistory = {} /\ ConfFilesOfScanner # {} =>
         \/ ret.items = <<>>
         \/ /\ Len(ret.items) = 1
            /\ \E k \in ConfFilesOfScanner :
                 /\ analysis.confFiles[k].path # NoPath
                 /\ ret.items[1] = createDefinitionLocationForPathInfo(analysis.confFiles[k].path)
    /\ ConfEntriesOfHistory = {} /\ ConfFilesOfScanner = {} => ret.items = <<>>

\* both an entry of the include history and a conf file of the scanner exist
C20_Witness ==
  /\ InOverrideBranch
  /\ ConfEntriesOfHistory # {}
  /\ \E k \in ConfFilesOfScanner : analysis.confFiles[k].path = MachineConfOfCore
  /\ ret.items = <<BspConfLocation>>

====
